---- MODULE Spec2Model ----
(***************************************************************************)
(* Model of ezrecords.abstractdb.Database: the session state, the          *)
(* transaction controller, the query execution engine, the placeholder     *)
(* normalizer, the SQL builder helpers and the record collection a query   *)
(* returns.                                                                *)
(*                                                                         *)
(* SQL text is a sequence of atoms.  The characters the normalizer looks   *)
(* at (%  s  d  f  '  ") are atoms of their own; every other atom is an    *)
(* opaque piece of text that contains none of them.  Python values are     *)
(* strings: None is the atom "None", numbers are "1", "2".                 *)
(***************************************************************************)
EXTENDS Integers, Sequences, FiniteSets, TLC

VARIABLES
    _connection,       \* "none" (None), "open" or "closed" connection object
    _in_transaction,   \* self._in_transaction
    save_queries,      \* self.save_queries
    saved_queries,     \* self.saved_queries, a sequence of entries
    last_insert_id,    \* self.last_insert_id
    last_query,        \* self.last_query
    last_error,        \* self.last_error
    affected_rows,     \* self.affected_rows
    queries_executed,  \* self.queries_executed
    _last_result,      \* self._last_result: "None", "Record", "RecordCollection"
    backendTx,         \* backend: a BEGIN is open on the connection
    backendOps,        \* backend: statements received on the connection
    openCursors,       \* backend: cursors opened and not yet closed
    execCount,         \* successful executions since construction or flush
    q_sql, q_args, q_proc,  \* arguments of the latest call of query()
    q_opened, q_closed,     \* cursors that call opened, and closed
    b_in,              \* arguments of the latest builder-helper call
    rc_rows,           \* rows behind the producer of the latest collection
    rc_next,           \* rows the one-shot producer has yielded so far
    rc_cache,          \* rows the collection has cached
    rc_pulls,          \* per row: how many times it was pulled
    rc_arg, rc_ret,    \* latest collection access: its index, its value
    p_in, p_out,       \* argument and return value of a direct prepare()
    call,              \* the latest operation called
    result             \* how it ended: "return" or the exception raised

session == <<_connection, _in_transaction, save_queries, saved_queries,
             last_insert_id, last_query, last_error, affected_rows,
             queries_executed, _last_result>>
backend == <<backendTx, backendOps, openCursors, execCount>>
qvars   == <<q_sql, q_args, q_proc, q_opened, q_closed>>
rcvars  == <<rc_rows, rc_next, rc_cache, rc_pulls, rc_arg, rc_ret>>
pvars   == <<p_in, p_out>>
vars    == <<session, backend, qvars, b_in, rcvars, pvars, call, result>>

----------------------------------------------------------------------------
(* Bounds of the model *)

MaxQueries == 2    \* cap of queries_executed
MaxCursors == 3    \* cap of openCursors
MaxOps     == 3    \* cap of backendOps
MaxLen     == 4    \* longest template handed to prepare() directly
MaxRows    == 2    \* most rows a result set holds

----------------------------------------------------------------------------
(* Text *)

None == "None"
PCT  == "%"
SQ   == "'"
DQ   == "\""

NoneText == <<"<None>">>   \* the value None where a text is expected
ZeroText == <<"<0>">>      \* the integer 0 where a text is expected

RECURSIVE Join(_, _)
Join(sep, parts) ==
    IF parts = <<>> THEN <<>>
    ELSE IF Len(parts) = 1 THEN Head(parts)
    ELSE Head(parts) \o sep \o Join(sep, Tail(parts))

RECURSIVE Repeat(_, _)
Repeat(x, n) == IF n = 0 THEN <<>> ELSE <<x>> \o Repeat(x, n - 1)

RECURSIVE Flatten(_)
Flatten(ss) == IF ss = <<>> THEN <<>> ELSE Head(ss) \o Flatten(Tail(ss))

IsPrefix(p, s) == Len(p) <= Len(s) /\ SubSeq(s, 1, Len(p)) = p

Drop(s, n) == SubSeq(s, n + 1, Len(s))

RECURSIVE str_replace(_, _, _)
str_replace(search, replace, subject) ==
    IF subject = <<>> THEN <<>>
    ELSE IF IsPrefix(search, subject)
         THEN replace \o str_replace(search, replace, Drop(subject, Len(search)))
         ELSE <<Head(subject)>> \o str_replace(search, replace, Tail(subject))

RECURSIVE CollapseRuns(_)
CollapseRuns(subject) ==
    IF subject = <<>> THEN <<>>
    ELSE IF Len(subject) >= 2 /\ subject[1] = PCT /\ subject[2] = PCT
         THEN CollapseRuns(Tail(subject))
         ELSE <<Head(subject)>> \o CollapseRuns(Tail(subject))

_placeholder == <<PCT, "s">>

RECURSIVE Count(_, _)
Count(search, subject) ==
    IF subject = <<>> THEN 0
    ELSE IF IsPrefix(search, subject)
         THEN 1 + Count(search, Drop(subject, Len(search)))
         ELSE Count(search, Tail(subject))

Contains(search, subject) == Count(search, subject) > 0

----------------------------------------------------------------------------
(* Inputs *)

Vals      == {"1", "2"}
RowVals   == {"r1", "r2"}
RowCounts == {0, 1}
RowIds    == {2}
AllRows   == UNION { [1..n -> RowVals] : n \in 0..MaxRows }
FewRows   == { <<"r1">> }
Drivers   == {FALSE}      \* hasattr(cursor, 'mogrify'): a driver without it
AnyDriver == BOOLEAN      \* drivers with and without mogrify
Alphabet  == {PCT, "s", "d", "f", SQ, DQ, "x"}
AllTexts  == UNION { [1..n -> Alphabet] : n \in 0..MaxLen }

----------------------------------------------------------------------------
(* Backend hooks *)

\* _connect(): binds a live connection when the session has none.
connect(c) == IF c = "none" THEN "open" ELSE c

\* cursor.mogrify(sql, args): the i-th marker becomes the i-th argument.
RECURSIVE mogrify(_, _)
mogrify(sql, args) ==
    IF sql = <<>> THEN <<>>
    ELSE IF IsPrefix(_placeholder, sql) /\ args # <<>>
         THEN <<Head(args)>> \o mogrify(Drop(sql, 2), Tail(args))
         ELSE <<Head(sql)>> \o mogrify(Tail(sql), args)

\* mogrify and execute fail the bind unless markers and arguments pair up.
Binds(sql, args) == Count(_placeholder, sql) = Len(args)

----------------------------------------------------------------------------
(* Placeholder normalizer: Database.prepare *)

prepare_text(sql) ==
    LET s1 == str_replace(<<SQ, PCT, "s", SQ>>, _placeholder, sql)
        s2 == str_replace(<<DQ, PCT, "s", DQ>>, _placeholder, s1)
        s3 == str_replace(<<PCT, "f">>, _placeholder, s2)
        s4 == str_replace(<<PCT, "d">>, _placeholder, s3)
    IN  CollapseRuns(s4)

\* the value prepare(sql, *args) returns on a driver with (mog) or without
\* mogrify
prepare(sql, args, mog) ==
    IF sql = NoneText THEN NoneText
    ELSE IF Len(args) = 0 THEN prepare_text(sql)
    ELSE IF mog THEN mogrify(prepare_text(sql), args)
    ELSE prepare_text(sql)

\* cursors prepare() opens; it closes none
prepare_cursors(sql) == IF sql = NoneText THEN 0 ELSE 1

----------------------------------------------------------------------------
(* Record collection *)

NoCollection == [rows |-> <<>>, next |-> 0, cache |-> <<>>, pulls |-> <<>>]

RecordCollection(rows) ==
    [rows |-> rows, next |-> 0, cache |-> <<>>,
     pulls |-> [i \in 1..Len(rows) |-> 0]]

rc_state == [rows |-> rc_rows, next |-> rc_next, cache |-> rc_cache,
             pulls |-> rc_pulls]

rc_exhausted(c) == c.next >= Len(c.rows)

\* next(collection): one row leaves the producer and enters the cache
rc_pull(c) ==
    [c EXCEPT !.next  = c.next + 1,
              !.cache = Append(c.cache, c.rows[c.next + 1]),
              !.pulls = [c.pulls EXCEPT ![c.next + 1] = @ + 1]]

\* an access that pulls a row without looking at the cache
rc_fill_eager(c, n) == IF rc_exhausted(c) THEN c ELSE rc_pull(c)

\* materialize until n rows are cached or the producer is exhausted
RECURSIVE rc_fill(_, _)
rc_fill(c, n) ==
    IF Len(c.cache) >= n \/ rc_exhausted(c) THEN c
    ELSE rc_fill(rc_pull(c), n)

------------------------------------------------------------\* materialize every row the producer still holds
rc_drain(c) == rc_fill(c, Len(c.cache) + (Len(c.rows) - c.next))

----------------
(* Session: Database.__init__ *)

\* The arguments of a builder-helper call.  dataKind and whereKind tell a
\* dict from None and from a value of another type.
BuilderCall(op, data, dataKind, where, whereKind, kwargs, columns, values) ==
    [op |-> op, table |-> "t", data |-> data, dataKind |-> dataKind,
     where |-> where, whereKind |-> whereKind, kwargs |-> kwargs,
     columns |-> columns, values |-> values]

NoBuilderCall == BuilderCall("", <<>>, "None", <<>>, "None", <<>>, <<>>, <<>>)

InitSession ==
    /\ _connection = connect("none")
    /\ _in_transaction = FALSE
    /\ save_queries = FALSE
    /\ saved_queries = <<>>
    /\ last_insert_id = 0
    /\ last_query = NoneText
    /\ last_error = ""
    /\ affected_rows = 0
    /\ queries_executed = 0
    /\ _last_result = "None"
    /\ backendTx = FALSE
    /\ backendOps = 0
    /\ openCursors = 0
    /\ execCount = 0
    /\ q_sql = NoneText /\ q_args = <<>> /\ q_proc = FALSE
    /\ q_opened = 0 /\ q_closed = 0
    /\ rc_rows = <<>> /\ rc_next = 0 /\ rc_cache = <<>> /\ rc_pulls = <<>>
    /\ rc_arg = 0 /\ rc_ret = <<>>
    /\ call = "__init__"
    /\ result = "return"

Init ==
    /\ InitSession
    /\ b_in = NoBuilderCall
    /\ p_in = NoneText /\ p_out = NoneText

----------------------------------------------------------------------------
(* Transaction controller *)

\* line 602: begin_transaction refuses when no connection is bound
BeginRefused == _connection = "none"

\* rollback that only looks at the connection
RollbackRefusedOnlyUnbound == _connection = "none"

\* line 614: rollback refuses without a connection or outside a transaction
RollbackRefused == _connection = "none" \/ ~_in_transaction

\* line 626: commit refuses when no connection is bound
CommitRefused == _connection = "none"

\* the flag after a BEGIN, a ROLLBACK and a COMMIT the backend accepted
FlagAfterBegin    == TRUE
FlagAfterRollback == FALSE

\* commit that forgets to clear the flag
FlagAfterCommitKept == _in_transaction

FlagAfterCommit   == FALSE

\* a call that sets the flag before it reaches the backend
FlagSetBeforeCall(flag) == flag

\* lines 605, 617, 629: the backend call comes first, so a raise leaves
\* the assignment of the flag unexecuted
FlagAfterRaise(flag) == _in_transaction

\* A call on the connection: refused by the session (RuntimeError), raised
\* by the backend (ok = FALSE, or the connection is closed), or accepted.
TxCall(name, refused, ok, flag, tx) ==
    /\ backendOps < MaxOps
    /\ call' = name
    /\ IF refused
       THEN /\ result' = "RuntimeError"
            /\ UNCHANGED <<_in_transaction, backendTx, backendOps>>
       ELSE IF _connection = "closed"
       THEN /\ result' = "BackendError"
            /\ _in_transaction' = FlagAfterRaise(flag)
            /\ UNCHANGED <<backendTx, backendOps>>
       ELSE IF ~ok
       THEN /\ result' = "BackendError"
            /\ backendOps' = backendOps + 1
            /\ _in_transaction' = FlagAfterRaise(flag)
            /\ UNCHANGED backendTx
       ELSE /\ result' = "return"
            /\ backendOps' = backendOps + 1
            /\ _in_transaction' = flag
            /\ backendTx' = tx
    /\ UNCHANGED <<_connection, save_queries, saved_queries, last_insert_id,
                   last_query, last_error, affected_rows, queries_executed,
                   _last_result, openCursors, execCount, qvars, b_in,
                   rcvars, pvars>>

begin_transaction ==
    \E ok \in BOOLEAN :
        TxCall("begin_transaction", BeginRefused, ok, FlagAfterBegin, TRUE)

rollback ==
    \E ok \in BOOLEAN :
        TxCall("rollback", RollbackRefused, ok, FlagAfterRollback, FALSE)

commit ==
    \E ok \in BOOLEAN :
        TxCall("commit", CommitRefused, ok, FlagAfterCommit, FALSE)

\* Database.close: the connection object stays bound and is closed; the
\* backend drops the open transaction.  Closing a closed connection raises.
close ==
    /\ call' = "close"
    /\ IF _connection = "none"
       THEN /\ result' = "RuntimeError"
            /\ UNCHANGED <<_connection, backendTx>>
       ELSE IF _connection = "closed"
       THEN /\ result' = "BackendError"
            /\ UNCHANGED <<_connection, backendTx>>
       ELSE /\ result' = "return"
            /\ _connection' = "closed"
            /\ backendTx' = FALSE
    /\ UNCHANGED <<_in_transaction, save_queries, saved_queries,
                   last_insert_id, last_query, last_error, affected_rows,
                   queries_executed, _last_result, backendOps, openCursors,
                   execCount, qvars, b_in, rcvars, pvars>>

\* a flush that resets the counters and leaves the log as it is
saved_queries_kept == saved_queries

\* line 690: del self.saved_queries[:] empties the list
saved_queries_cleared == <<>>

\* Database.flush
flush ==
    /\ call' = "flush"
    /\ result' = "return"
    /\ last_error' = ""
    /\ affected_rows' = 0
    /\ last_query' = ZeroText
    /\ queries_executed' = 0
    /\ saved_queries' = saved_queries_cleared
    /\ execCount' = 0
    /\ UNCHANGED <<_connection, _in_transaction, save_queries, last_insert_id,
                   _last_result, backendTx, backendOps, openCursors, qvars,
                   b_in, rcvars, pvars>>

\* the caller sets the public attribute save_queries
set_save_queries ==
    /\ call' = "save_queries"
    /\ result' = "return"
    /\ save_queries' = ~save_queries
    /\ UNCHANGED <<_connection, _in_transaction, saved_queries,
                   last_insert_id, last_query, last_error, affected_rows,
                   queries_executed, _last_result, backend, qvars, b_in,
                   rcvars, pvars>>

----------------------------------------------------------------------------
(* Query execution engine: Database.query *)

\* line 241: the text recorded for a stored-procedure call
proc_text(sql, args) ==
    sql \o Join(<<", ">>, [i \in 1..Len(args) |-> <<args[i]>>])

\* line 245: the text recorded for a statement
statement_text(sql, args, mog) == IF mog THEN mogrify(sql, args) ELSE sql

\* lines 246-254: the log after a statement the backend executed
log_after_execute(text) ==
    IF save_queries THEN Append(saved_queries, [sql |-> text])
    ELSE saved_queries

\* lines 239-256: which path bumps the counter of executed queries
counts_query(proc) == ~proc

\* line 270: the cursors query closes once fetchall has returned
cursors_closed == 1

\* query(sql, *args, proc=, one=) against a driver that has mogrify (mog)
\* or not, a backend that executes the statement (ok) or raises, reports
\* rowcount and lastrowid, and whose fetchall raises ("raise"), returns
\* None ("none") or returns the rows (fetch = "rows").
QueryCall(sql, args, proc, one, mog, ok, rowcount, rowid, fetch, rows) ==
    LET conn     == connect(_connection)
        psql     == prepare(sql, <<>>, mog)
        opened   == 1 + (IF proc THEN 0 ELSE prepare_cursors(sql))
        text     == IF proc THEN proc_text(sql, args)
                    ELSE statement_text(psql, args, mog)
        executed == ok /\ (proc \/ Binds(psql, args))
        coll     == RecordCollection(rows)
        held     == IF one THEN rc_fill(coll, 1) ELSE coll
    IN
    /\ queries_executed < MaxQueries
    /\ openCursors + 2 <= MaxCursors
    /\ backendOps < MaxOps
    /\ q_sql' = sql /\ q_args' = args /\ q_proc' = proc
    /\ _connection' = conn
    /\ UNCHANGED <<_in_transaction, save_queries, last_error, backendTx,
                   pvars>>
    /\ IF conn = "closed"
       THEN \* line 234: cursor() on a closed connection raises
            /\ result' = "BackendError"
            /\ q_opened' = 0 /\ q_closed' = 0
            /\ UNCHANGED <<saved_queries, last_insert_id, last_query,
                           affected_rows, queries_executed, _last_result,
                           backendOps, openCursors, execCount, rcvars>>
       ELSE IF ~proc /\ mog /\ ~Binds(psql, args)
       THEN \* line 245: mogrify raises
            /\ result' = "BackendError"
            /\ q_opened' = opened /\ q_closed' = 0
            /\ openCursors' = openCursors + opened
            /\ UNCHANGED <<saved_queries, last_insert_id, last_query,
                           affected_rows, queries_executed, _last_result,
                           backendOps, execCount, rcvars>>
       ELSE IF ~executed
       THEN \* line 240 or 249: callproc or execute raises
            /\ result' = "BackendError"
            /\ q_opened' = opened /\ q_closed' = 0
            /\ openCursors' = openCursors + opened
            /\ backendOps' = backendOps + 1
            /\ last_query' = IF proc THEN last_query ELSE text
            /\ UNCHANGED <<saved_queries, last_insert_id, affected_rows,
                           queries_executed, _last_result, execCount,
                           rcvars>>
       ELSE /\ backendOps' = backendOps + 1
            /\ execCount' = execCount + 1
            /\ q_opened' = opened
            /\ last_query' = text
            /\ saved_queries' = IF proc THEN saved_queries
                                ELSE log_after_execute(text)
            /\ queries_executed' = IF counts_query(proc)
                                   THEN queries_executed + 1
                                   ELSE queries_executed
            /\ affected_rows' = rowcount
            /\ last_insert_id' = rowid
            /\ IF fetch = "raise"
               THEN \* line 267: the except clause names an unbound name
                    /\ result' = "NameError"
                    /\ q_closed' = 0
                    /\ openCursors' = openCursors + opened
                    /\ UNCHANGED <<_last_result, rcvars>>
               ELSE IF fetch = "none"
               THEN /\ result' = "return"
                    /\ q_closed' = cursors_closed
                    /\ openCursors' = openCursors + opened - cursors_closed
                    /\ UNCHANGED <<_last_result, rcvars>>
               ELSE /\ result' = "return"
                    /\ q_closed' = cursors_closed
                    /\ openCursors' = openCursors + opened - cursors_closed
                    /\ _last_result' =
                          IF ~one THEN "RecordCollection"
                          ELSE IF rows = <<>> THEN "None" ELSE "Record"
                    /\ rc_rows' = held.rows /\ rc_next' = held.next
                    /\ rc_cache' = held.cache /\ rc_pulls' = held.pulls
                    /\ rc_arg' = 0
                    /\ rc_ret' = IF one THEN held.cache ELSE <<>>

\* What the backend does with one statement: it raises, or it executes the
\* statement, reports rowcount and lastrowid, and its fetchall raises,
\* returns None or returns rows drawn from rowsets.
Outcomes(rowsets) ==
    {[ok |-> FALSE, rowcount |-> 0, rowid |-> 0, fetch |-> "none",
      rows |-> <<>>]}
    \cup {[ok |-> TRUE, rowcount |-> n, rowid |-> k, fetch |-> f,
           rows |-> <<>>] :
            n \in RowCounts, k \in RowIds, f \in {"raise", "none"}}
    \cup {[ok |-> TRUE, rowcount |-> n, rowid |-> k, fetch |-> "rows",
           rows |-> r] :
            n \in RowCounts, k \in RowIds, r \in rowsets}

\* The calls of query: a statement, a statement with one marker and its
\* argument, a stored procedure with one argument.
Statements ==
    { [sql |-> <<"q">>, args |-> <<>>, proc |-> FALSE],
      [sql |-> <<"q", PCT, "d">>, args |-> <<"1">>, proc |-> FALSE],
      [sql |-> <<"p">>, args |-> <<"1">>, proc |-> TRUE] }

query ==
    \E st \in Statements, one \in BOOLEAN, mog \in Drivers,
       o \in Outcomes(FewRows) :
        /\ call' = "query"
        /\ QueryCall(st.sql, st.args, st.proc, one, mog, o.ok, o.rowcount,
                     o.rowid, o.fetch, o.rows)
        /\ UNCHANGED b_in

Next == \/ begin_transaction
        \/ rollback
        \/ commit
        \/ close
        \/ flush
        \/ set_save_queries
        \/ query

Spec == Init /\ [][Next]_vars

----------------------------------------------------------------------------
(* Properties of the session *)

TxCalls == {"begin_transaction", "commit", "rollback"}

\* C1: the in-transaction flag is true only if the connection exists, has
\* not been closed, and holds a BEGIN not yet followed by COMMIT or ROLLBACK.
C1_FlagOnlyInOpenTransaction ==
    _in_transaction => (_connection = "open" /\ backendTx)

\* C2: a rollback or a commit that returns leaves the flag false, so begin
\* followed by either returns to Idle; a rollback right after a begin that
\* returned is not refused; a commit in Idle on a bound connection is not
\* refused and leaves the flag false; a rollback in Idle is refused.
C2_RoundTrip ==
    [][ /\ (call' = "rollback" /\ result' = "return") => ~_in_transaction'
        /\ (call' = "commit" /\ result' = "return") => ~_in_transaction'
        /\ (call = "begin_transaction" /\ result = "return"
              /\ call' \in {"rollback", "commit"})
            => result' # "RuntimeError"
        /\ (call' = "commit" /\ ~_in_transaction /\ _connection # "none")
            => (result' # "RuntimeError" /\ ~_in_transaction')
        /\ (call' = "rollback" /\ ~_in_transaction)
            => (result' = "RuntimeError" /\ ~_in_transaction')
      ]_vars

C2_Witness ==
    /\ call = "rollback" /\ result = "return"
    /\ ~_in_transaction /\ ~backendTx /\ backendOps >= 2

\* C3: a transaction-control call without a connection, or a rollback
\* outside a transaction, raises the usage error, sends nothing to the
\* backend and changes no session field.
C3_RefusedCallChangesNothing ==
    [][ (/\ call' \in TxCalls
         /\ \/ _connection = "none"
            \/ (call' = "rollback" /\ ~_in_transaction))
        => (/\ result' = "RuntimeError"
            /\ UNCHANGED <<session, backend>>)
      ]_vars

C3_Witness ==
    /\ call = "rollback" /\ result = "RuntimeError"
    /\ ~_in_transaction /\ _connection = "open"

\* C4: a query call that returns has opened exactly one cursor and has
\* closed it.
C4_QueryOpensAndClosesOneCursor ==
    (call = "query" /\ result = "return")
        => (q_opened = 1 /\ q_closed = 1)

\* C5: queries_executed equals the number of successful executions since
\* construction or the last flush.
C5_CounterCountsExecutions == queries_executed = execCount

\* C10: a query the backend executed appends one entry when save_queries is
\* on and none when it is off; only flush touches the entries already
\* logged, and flush empties the log.
C10_SavedQueryLog ==
    [][ /\ (call' = "query" /\ execCount' = execCount + 1)
            => /\ Len(saved_queries')
                    = Len(saved_queries) + (IF save_queries THEN 1 ELSE 0)
               /\ SubSeq(saved_queries', 1, Len(saved_queries))
                    = saved_queries
        /\ (call' = "query" /\ execCount' = execCount)
            => saved_queries' = saved_queries
        /\ call' \notin {"query", "flush"} => saved_queries' = saved_queries
        /\ call' = "flush" => saved_queries' = <<>>
      ]_vars

\* C11: whatever the session did before, flush returns with affected_rows
\* and queries_executed at 0, last_error empty, last_query at 0 and the
\* saved-query log empty.
C11_FlushResets ==
    (call = "flush")
        => /\ result = "return"
           /\ affected_rows = 0
           /\ queries_executed = 0
           /\ last_error = ""
           /\ last_query = ZeroText
           /\ saved_queries = <<>>

\* flush has returned in a session that had executed a statement (only an
\* executed statement sets last_insert_id) and is inside a transaction
C11_Witness ==
    /\ call = "flush"
    /\ last_insert_id \in RowIds
    /\ _in_transaction
    /\ save_queries


----------------------------------------------------------------------------
(* The placeholder normalizer called on its own: Database.prepare *)

InitPrepare ==
    /\ InitSession
    /\ b_in = NoBuilderCall
    /\ p_in \in AllTexts \cup {NoneText}
    /\ p_out = NoneText

prepare_call ==
    \E args \in {<<>>, <<"1">>}, mog \in AnyDriver :
        LET conn == connect(_connection)
            text == prepare(p_in, args, mog)
        IN
        /\ openCursors < MaxCursors
        /\ call' = "prepare"
        /\ IF p_in = NoneText
           THEN \* line 183: nothing to prepare
                /\ result' = "return"
                /\ p_out' = NoneText
                /\ UNCHANGED <<_connection, openCursors>>
           ELSE IF conn = "closed"
           THEN /\ result' = "BackendError"
                /\ _connection' = conn
                /\ UNCHANGED <<p_out, openCursors>>
           ELSE IF mog /\ args # <<>> /\ ~Binds(prepare_text(p_in), args)
           THEN /\ result' = "BackendError"
                /\ _connection' = conn
                /\ openCursors' = openCursors + prepare_cursors(p_in)
                /\ UNCHANGED p_out
           ELSE /\ result' = "return"
                /\ _connection' = conn
                /\ openCursors' = openCursors + prepare_cursors(p_in)
                /\ p_out' = text
        /\ UNCHANGED <<_in_transaction, save_queries, saved_queries,
                       last_insert_id, last_query, last_error, affected_rows,
                       queries_executed, _last_result, backendTx, backendOps,
                       execCount, qvars, b_in, rcvars, p_in>>

NextPrepare == prepare_call

SpecPrepare == InitPrepare /\ [][NextPrepare]_vars

\* C8: the text prepare returns holds no %f, no %d and no quoted '%s' or
\* "%s" marker.
C8_OnlyBareMarkers ==
    (call = "prepare" /\ result = "return" /\ p_in # NoneText)
        => /\ ~Contains(<<PCT, "f">>, p_out)
           /\ ~Contains(<<PCT, "d">>, p_out)
           /\ ~Contains(<<SQ, PCT, "s", SQ>>, p_out)
           /\ ~Contains(<<DQ, PCT, "s", DQ>>, p_out)

----------------------------------------------------------------------------
(* SQL builder helpers *)

\* A mapping (dict) is a sequence of <<key, value>> pairs with distinct
\* keys, in the order the dict iterates.
Fields  == {"a", "b"}
MapVals == {None, "1", "2"}

Keys(m)   == [i \in 1..Len(m) |-> m[i][1]]
Values(m) == [i \in 1..Len(m) |-> m[i][2]]
HasKey(m, k) == \E i \in 1..Len(m) : m[i][1] = k
Lookup(m, k) == m[CHOOSE i \in 1..Len(m) : m[i][1] = k][2]

IsMapping(m) == \A i, j \in 1..Len(m) : m[i][1] = m[j][1] => i = j

Mappings ==
    { m \in UNION { [1..n -> Fields \X MapVals] : n \in 0..Cardinality(Fields) } :
        IsMapping(m) }

ColumnLists ==
    { c \in UNION { [1..n -> Fields] : n \in 0..Cardinality(Fields) } :
        \A i, j \in 1..Len(c) : c[i] = c[j] => i = j }

Tuples     == UNION { [1..n -> Vals] : n \in 0..Cardinality(Fields) }
TupleLists == UNION { [1..n -> Tuples] : n \in 0..MaxRows }

\* dict.update: keys already present keep their place and take the new
\* value, new keys are appended
RECURSIVE dict_update(_, _)
dict_update(m, other) ==
    IF other = <<>> THEN m
    ELSE LET k == Head(other)[1]
             v == Head(other)[2]
             m1 == IF HasKey(m, k)
                   THEN [i \in 1..Len(m) |->
                            IF m[i][1] = k THEN <<k, v>> ELSE m[i]]
                   ELSE Append(m, <<k, v>>)
         IN  dict_update(m1, Tail(other))

\* lines 455-456, 521-522: kwargs.update(data) unless data is None
merged(kind, data, kwargs) ==
    IF kind = "None" THEN kwargs ELSE dict_update(kwargs, data)

Singletons(s) == [i \in 1..Len(s) |-> <<s[i]>>]

\* lines 460-464
insert_sql(table, kw) ==
    <<"INSERT INTO ", table, " (">>
    \o Join(<<", ">>, Singletons(Keys(kw)))
    \o <<") VALUES (">>
    \o Join(<<", ">>, Repeat(_placeholder, Len(Values(kw))))
    \o <<")">>

\* line 466
insert_args(kw) == Values(kw)

\* a group as wide as the list of rows instead of the list of columns
single_values_per_row(columns, values) ==
    <<"(">> \o Join(<<", ">>, Repeat(_placeholder, Len(values))) \o <<")">>

\* line 486
single_values(columns, values) ==
    <<"(">> \o Join(<<", ">>, Repeat(_placeholder, Len(columns))) \o <<")">>

\* lines 488-492
bulk_insert_sql(table, columns, values) ==
    <<"INSERT INTO ", table, " (">>
    \o Join(<<", ">>, Singletons(columns))
    \o <<") VALUES ">>
    \o Join(<<", ">>, Repeat(single_values(columns, values), Len(values)))

\* lines 494-496
bulk_insert_args(values) == Flatten(values)

\* lines 525-531, 575-581: one condition per entry
conditions_of(m) ==
    [i \in 1..Len(m) |->
        IF m[i][2] = None THEN <<DQ, m[i][1], DQ, " IS NULL">>
        ELSE <<DQ, m[i][1], DQ, " = ">> \o _placeholder]

\* lines 567-573: one assignment per entry
fields_of(m) ==
    [i \in 1..Len(m) |->
        IF m[i][2] = None THEN <<DQ, m[i][1], DQ, " = NULL">>
        ELSE <<DQ, m[i][1], DQ, " = ">> \o _placeholder]

IsBound(v) == v # None

\* binds every value, None included
bound_values_all(m) == Values(m)

\* lines 526-531, 568-573, 576-581: the values appended to the argument list
bound_values(m) == SelectSeq(Values(m), IsBound)

\* lines 533-538
delete_sql(table, kw) ==
    LET conditions == Join(<<" AND">>, conditions_of(kw))
    IN  <<"DELETE FROM ", DQ, table, DQ, " ">>
        \o (IF conditions # <<>> THEN <<" WHERE ">> \o conditions ELSE <<>>)

\* lines 583-586
update_sql(table, data, where) ==
    <<"UPDATE ", DQ, table, DQ, " SET ">>
    \o Join(<<", ">>, fields_of(data))
    \o <<" WHERE ">>
    \o Join(<<" AND ">>, conditions_of(where))

\* lines 565-581: SET values, then WHERE values
update_args(data, where) == bound_values(data) \o bound_values(where)

----------------------------------------------------------------------------
(* The builder helpers called on drawn arguments *)

Given(ms, kinds) ==
    { [m |-> m, kind |-> "dict"] : m \in ms }
    \cup { [m |-> <<>>, kind |-> k] : k \in kinds }

BuilderInputs ==
    { BuilderCall("insert", d.m, d.kind, <<>>, "None", kw, <<>>, <<>>) :
        d \in Given(Mappings, {"None"}), kw \in Mappings }
    \cup
    { BuilderCall("bulk_insert", <<>>, "None", <<>>, "None", <<>>, c, v) :
        c \in ColumnLists, v \in TupleLists }
    \cup
    { BuilderCall("delete", <<>>, "None", w.m, w.kind, kw, <<>>, <<>>) :
        w \in Given(Mappings, {"None"}), kw \in Mappings }
    \cup
    { BuilderCall("update", d.m, d.kind, w.m, w.kind, <<>>, <<>>, <<>>) :
        d \in Given(Mappings, {"other"}), w \in Given(Mappings, {"other"}) }

InitBuilder ==
    /\ InitSession
    /\ b_in \in BuilderInputs
    /\ p_in = NoneText /\ p_out = NoneText

\* the helper hands sql and args to query and returns affected_rows
BuilderQuery(op, sql, args) ==
    \E mog \in Drivers, o \in Outcomes({}) :
        /\ b_in.op = op
        /\ call' = op
        /\ QueryCall(sql, args, FALSE, FALSE, mog, o.ok, o.rowcount,
                     o.rowid, o.fetch, o.rows)
        /\ UNCHANGED b_in

insert ==
    LET kw == merged(b_in.dataKind, b_in.data, b_in.kwargs)
    IN  BuilderQuery("insert", insert_sql(b_in.table, kw), insert_args(kw))

bulk_insert ==
    BuilderQuery("bulk_insert",
                 bulk_insert_sql(b_in.table, b_in.columns, b_in.values),
                 bulk_insert_args(b_in.values))

delete ==
    LET kw == merged(b_in.whereKind, b_in.where, b_in.kwargs)
    IN  BuilderQuery("delete", delete_sql(b_in.table, kw), bound_values(kw))

\* an update that tests its data argument and takes any where argument
update_checks_data_only == b_in.dataKind # "dict"

\* line 562: update runs a query only when both arguments are dicts
update_fails_fast == b_in.dataKind # "dict" \/ b_in.whereKind # "dict"

update ==
    IF update_fails_fast
    THEN /\ b_in.op = "update"
         /\ call' = "update"
         /\ result' = "False"
         /\ UNCHANGED <<session, backend, qvars, b_in, rcvars, pvars>>
    ELSE BuilderQuery("update",
                      update_sql(b_in.table, b_in.data, b_in.where),
                      update_args(b_in.data, b_in.where))

NextBuilder == \/ insert
               \/ bulk_insert
               \/ delete
               \/ update

SpecBuilder == InitBuilder /\ [][NextBuilder]_vars

\* update called in the course of a session: the arguments of the call are
\* drawn once, the session runs statements and opens a transaction around it
UpdateInputs ==
    { BuilderCall("update", d.m, d.kind, w.m, w.kind, <<>>, <<>>, <<>>) :
        d \in Given({<<<<"a", "1">>>>}, {"other"}),
        w \in Given({<<<<"b", "2">>>>}, {"other"}) }

InitUpdate ==
    /\ InitSession
    /\ b_in \in UpdateInputs
    /\ p_in = NoneText /\ p_out = NoneText

NextUpdate == \/ update
              \/ query
              \/ begin_transaction
              \/ set_save_queries

SpecUpdate == InitUpdate /\ [][NextUpdate]_vars

----------------------------------------------------------------------------
(* Properties of the builder helpers *)

IsField(a) == a \in Fields

\* the column names of a statement, in the order they are written
ColumnsIn(sql) == SelectSeq(sql, IsField)

\* the columns written as  "column" = %s , in the order they are written
BoundColumnsIn(sql) ==
    LET at == { j \in 1..Len(sql) :
                   /\ IsField(sql[j]) /\ j + 4 <= Len(sql)
                   /\ sql[j + 2] = " = " /\ sql[j + 3] = PCT /\ sql[j + 4] = "s" }
        IsAt(j) == j \in at
        places == SelectSeq([j \in 1..Len(sql) |-> j], IsAt)
    IN  [i \in 1..Len(places) |-> sql[places[i]]]

Placeholders(sql) == Count(_placeholder, sql)

KeySet(m) == { m[i][1] : i \in 1..Len(m) }
NoneKeys(m) == { m[i][1] : i \in { j \in 1..Len(m) : m[j][2] = None } }

\* the value a key has once the dict argument has overridden the keywords
Effective(kind, data, kwargs, k) ==
    IF kind = "dict" /\ HasKey(data, k) THEN Lookup(data, k)
    ELSE Lookup(kwargs, k)

Position(sql, atom) == CHOOSE j \in 1..Len(sql) : sql[j] = atom

\* C6: insert writes one placeholder per column and binds the values in
\* the order of the columns; bulk_insert on rows as wide as the column list
\* writes one group of len(columns) placeholders per row and binds the row
\* values flattened row by row; in both the placeholders are as many as the
\* bound arguments.
C6_PlaceholdersMatchArguments ==
    /\ call = "insert" =>
         LET cols == ColumnsIn(q_sql)
         IN  /\ Placeholders(q_sql) = Len(q_args)
             /\ Len(cols) = Len(q_args)
             /\ { cols[i] : i \in 1..Len(cols) }
                  = KeySet(b_in.data) \cup KeySet(b_in.kwargs)
             /\ \A i \in 1..Len(cols) :
                  q_args[i] = Effective(b_in.dataKind, b_in.data,
                                        b_in.kwargs, cols[i])
    /\ (/\ call = "bulk_insert"
        /\ \A r \in 1..Len(b_in.values) :
              Len(b_in.values[r]) = Len(b_in.columns))
       => LET n == Len(b_in.columns)
              group == <<"(">> \o Join(<<", ">>, Repeat(_placeholder, n))
                       \o <<")">>
          IN  /\ Placeholders(q_sql) = Len(q_args)
              /\ Len(q_args) = n * Len(b_in.values)
              /\ Count(<<"(">>, q_sql) = Len(b_in.values)
              /\ Count(group, q_sql) = Len(b_in.values)
              /\ \A r \in 1..Len(b_in.values) : \A c \in 1..n :
                    q_args[(r - 1) * n + c] = b_in.values[r][c]

C6_Witness ==
    /\ call = "bulk_insert" /\ result = "return"
    /\ b_in.columns = <<"a", "b">>
    /\ q_args = <<"1", "2", "2", "1">>
    /\ Placeholders(q_sql) = 4

\* C7: delete and update write IS NULL (= NULL in SET) for each None entry
\* and bind nothing for it, write one placeholder and bind one argument for
\* each other entry, join the WHERE conditions with AND, and bind the
\* arguments in the order of the placeholders, SET values before WHERE
\* values.
C7_NoneIsLiteral ==
    /\ call = "delete" =>
         LET keys  == KeySet(b_in.where) \cup KeySet(b_in.kwargs)
             val(k) == Effective(b_in.whereKind, b_in.where, b_in.kwargs, k)
             nulls == { k \in keys : val(k) = None }
             cols  == BoundColumnsIn(q_sql)
         IN  /\ Count(<<" IS NULL">>, q_sql) = Cardinality(nulls)
             /\ Placeholders(q_sql) = Cardinality(keys \ nulls)
             /\ Len(q_args) = Placeholders(q_sql)
             /\ Len(cols) = Len(q_args)
             /\ \A i \in 1..Len(cols) :
                   cols[i] \notin nulls /\ q_args[i] = val(cols[i])
             /\ Count(<<" AND">>, q_sql) + Count(<<" AND ">>, q_sql)
                  = (IF keys = {} THEN 0 ELSE Cardinality(keys) - 1)
    /\ (call = "update" /\ result # "False") =>
         LET cols   == BoundColumnsIn(q_sql)
             nset   == Cardinality(KeySet(b_in.data) \ NoneKeys(b_in.data))
             nwhere == Cardinality(KeySet(b_in.where) \ NoneKeys(b_in.where))
             w      == Position(q_sql, " WHERE ")
         IN  /\ Count(<<" = NULL">>, q_sql) = Cardinality(NoneKeys(b_in.data))
             /\ Count(<<" IS NULL">>, q_sql) = Cardinality(NoneKeys(b_in.where))
             /\ Placeholders(SubSeq(q_sql, 1, w)) = nset
             /\ Placeholders(Drop(q_sql, w)) = nwhere
             /\ Len(q_args) = nset + nwhere
             /\ Len(cols) = Len(q_args)
             /\ \A i \in 1..Len(cols) :
                   q_args[i] = IF i <= nset THEN Lookup(b_in.data, cols[i])
                               ELSE Lookup(b_in.where, cols[i])
             /\ Count(<<" AND">>, q_sql) + Count(<<" AND ">>, q_sql)
                  = (IF b_in.where = <<>> THEN 0 ELSE Len(b_in.where) - 1)

C7_Witness ==
    /\ call = "delete" /\ result = "return"
    /\ b_in.where = << <<"a", None>>, <<"b", "1">> >>
    /\ b_in.kwargs = <<>>
    /\ q_args = <<"1">>
    /\ Count(<<" IS NULL">>, q_sql) = 1


----------------------------------------------------------------------------
(* The record collection a query returned, in the hands of the caller *)

\* a SELECT through query
select ==
    \E one \in BOOLEAN, mog \in Drivers, o \in Outcomes(AllRows) :
        /\ call' = "query"
        /\ QueryCall(<<"q">>, <<>>, FALSE, one, mog, o.ok, o.rowcount,
                     o.rowid, o.fetch, o.rows)
        /\ UNCHANGED b_in

\* the caller accesses the collection it holds and gets ret or an error
Access(name, arg, c, ret, res) ==
    /\ _last_result = "RecordCollection"
    /\ call' = name
    /\ result' = res
    /\ rc_arg' = arg
    /\ rc_ret' = ret
    /\ rc_rows' = c.rows /\ rc_next' = c.next
    /\ rc_cache' = c.cache /\ rc_pulls' = c.pulls
    /\ UNCHANGED <<session, backend, qvars, b_in, pvars>>

\* collection[i]
rc_index ==
    \E i \in 0..MaxRows :
        LET c == rc_fill(rc_state, i + 1)
        IN  IF i < Len(c.cache)
            THEN Access("rc_index", i, c, <<c.cache[i + 1]>>, "return")
            ELSE Access("rc_index", i, c, <<>>, "IndexError")

\* collection.all()
rc_all ==
    LET c == rc_drain(rc_state)
    IN  Access("rc_all", 0, c, c.cache, "return")

\* collection.first(): the first row, or None for an empty result
rc_first ==
    LET c == rc_fill(rc_state, 1)
    IN  Access("rc_first", 0, c,
               IF c.cache = <<>> THEN <<>> ELSE <<c.cache[1]>>, "return")

NextRecords == \/ select
               \/ rc_index
               \/ rc_all
               \/ rc_first

SpecRecords == Init /\ [][NextRecords]_vars

RcCalls == {"rc_index", "rc_all", "rc_first"}

\* C9: no row is pulled from the producer more than once; the cache is the
\* rows pulled so far, in order; an index already cached is answered from
\* the cache with no pull, so indexing it again returns the same value; and
\* once the producer is exhausted no access pulls.
C9_AtMostOnce ==
    /\ [](/\ \A k \in 1..Len(rc_pulls) : rc_pulls[k] <= 1
          /\ rc_next <= Len(rc_rows)
          /\ rc_cache = SubSeq(rc_rows, 1, rc_next))
    /\ [][ /\ (call' = "rc_index" /\ rc_arg' < Len(rc_cache))
               => /\ rc_pulls' = rc_pulls
                  /\ rc_cache' = rc_cache
                  /\ rc_ret' = <<rc_cache[rc_arg' + 1]>>
           /\ (call' \in RcCalls /\ rc_next = Len(rc_rows))
               => (rc_pulls' = rc_pulls /\ rc_cache' = rc_cache)
           /\ call' \in RcCalls
               => /\ rc_rows' = rc_rows
                  /\ SubSeq(rc_cache', 1, Len(rc_cache)) = rc_cache
         ]_vars

C9_Witness ==
    /\ call = "rc_index" /\ result = "return"
    /\ rc_arg = 0 /\ Len(rc_rows) = 2
    /\ rc_cache = rc_rows /\ rc_next = 2
    /\ rc_ret = <<rc_rows[1]>>

====
